---- MODULE Spec2Model ----
(***************************************************************************)
(* Model of the chunking core of the FileMerger application (src/app.py).  *)
(*                                                                         *)
(* A Python string is a sequence of one-character strings.  The alphabet   *)
(* is "w" (any word character), " " and "\n" (whitespace), "#" (the        *)
(* heading marker) and "." (sentence-ending punctuation).  The chunkers    *)
(* are operators computed as the code computes them; a call of a chunker   *)
(* is an action that stores what the call returned.                        *)
(***************************************************************************)
EXTENDS Integers, Sequences, FiniteSets, TLC

VARIABLES text, max_paragraphs, max_tokens, similarity_threshold,
          has_sklearn, nltk_data, similarities, vectorizer_fails,
          chunks_in, max_keywords, session_state, call, result,
          returned, document_chunks, widgets, rendered_page

vars == <<text, max_paragraphs, max_tokens, similarity_threshold,
          has_sklearn, nltk_data, similarities, vectorizer_fails,
          chunks_in, max_keywords, session_state, call, result,
          returned, document_chunks, widgets, rendered_page>>

(***************************************************************************)
(* Bounds of the model.                                                    *)
(***************************************************************************)
MaxParaPieces == 7
MaxParagraphsPerChunk == 6
MaxTokenPieces == 7
MaxTokens == 3
MaxSemanticPieces == 7
MaxStructurePieces == 5
MaxChunks == 10
MaxChunkerPieces == 4
MaxKeywords == 1
MaxKeywordPieces == 4
MaxKeywordsAsked == 3
MaxRepeatPieces == 4
MaxCalls == 3
MaxFiles == 2
MaxSectionPieces == 3

(***************************************************************************)
(* Program constants.                                                      *)
(***************************************************************************)
\* the defaults of the parameters; the similarity threshold 0.3 in hundredths
DefaultMaxParagraphs == 5
DefaultMaxTokens == 500
DefaultThreshold == 30
DefaultMaxKeywords == 10

(***************************************************************************)
(* Strings.                                                                *)
(***************************************************************************)
NL == "\n"
NLNL == <<NL, NL>>
SP == <<" ">>

IsSpace(c) == c \in {" ", NL}

Max(a, b) == IF a >= b THEN a ELSE b
Min(a, b) == IF a <= b THEN a ELSE b

RECURSIVE concat(_)
concat(ss) == IF ss = <<>> THEN <<>> ELSE Head(ss) \o concat(Tail(ss))

\* every string made of at most n pieces of P
Texts(P, n) == { concat(s) : s \in UNION { [1..k -> P] : k \in 0..n } }

\* sep.join(ss)
RECURSIVE join(_, _)
join(ss, sep) ==
    IF ss = <<>> THEN <<>>
    ELSE IF Len(ss) = 1 THEN ss[1]
    ELSE ss[1] \o sep \o join(Tail(ss), sep)

StartsWithAt(s, sep, i) ==
    /\ i + Len(sep) - 1 <= Len(s)
    /\ \A k \in 1..Len(sep) : s[i + k - 1] = sep[k]

\* s.split(sep): fields between the non-overlapping occurrences of sep, found
\* left to right; start is where the current field began
RECURSIVE split_from(_, _, _, _)
split_from(s, sep, i, start) ==
    IF i > Len(s) THEN << SubSeq(s, start, Len(s)) >>
    ELSE IF StartsWithAt(s, sep, i)
         THEN << SubSeq(s, start, i - 1) >>
              \o split_from(s, sep, i + Len(sep), i + Len(sep))
         ELSE split_from(s, sep, i + 1, start)

str_split(s, sep) == split_from(s, sep, 1, 1)

\* truth value of s.strip()
strip_nonempty(s) == \E i \in 1..Len(s) : ~IsSpace(s[i])

\* the result of a call: a returned list, or an exception that escaped
\* and then kind names the exception
Return(v) == [exc |-> FALSE, kind |-> "", val |-> v]
Raise(kind) == [exc |-> TRUE, kind |-> kind, val |-> <<>>]

(***************************************************************************)
(* The NLTK tokenizers (nltk.tokenize, imported at line 55).  nltk_data    *)
(* says what a call of them does: "ok" - the punkt data is installed and   *)
(* they work; "missing" - the data is missing and cannot be downloaded,    *)
(* every call raises LookupError; "broken" - every call raises an error    *)
(* that is not a LookupError.  Before the downloads of lines 61-64 and 396  *)
(* there is a fourth case, "downloadable": the data is missing, a call      *)
(* raises LookupError, and nltk.download installs the data.                 *)
(***************************************************************************)
NltkData == {"ok", "missing", "broken"}

NltkInstalled == NltkData \cup {"downloadable"}

\* the state of the data after nltk.download('punkt', quiet=True)
nltk_download(data) == IF data = "downloadable" THEN "ok" ELSE data

nltk_after_import_without_download(installed) == installed

\* lines 61-64: the data is looked up when the script starts and downloaded
\* if it is missing
nltk_after_import(installed) == nltk_download(installed)

\* index of the last character that is not whitespace, 0 if there is none
RECURSIVE rstrip_end(_, _)
rstrip_end(s, i) ==
    IF i = 0 THEN 0
    ELSE IF IsSpace(s[i]) THEN rstrip_end(s, i - 1) ELSE i

\* index of the first character at or after i that is not whitespace
RECURSIVE skip_space(_, _)
skip_space(s, i) ==
    IF i > Len(s) THEN i
    ELSE IF IsSpace(s[i]) THEN skip_space(s, i + 1) ELSE i

\* Punkt: a sentence ends at a "." that is followed by whitespace; the
\* whitespace between two sentences and at the end of the text belongs to no
\* sentence, so a blank text has no sentence at all.
RECURSIVE punkt_from(_, _, _)
punkt_from(s, i, start) ==
    LET end == rstrip_end(s, Len(s))
    IN  IF start > end THEN <<>>
        ELSE IF i >= end THEN << SubSeq(s, start, end) >>
        ELSE IF s[i] = "." /\ IsSpace(s[i + 1])
             THEN << SubSeq(s, start, i) >>
                  \o punkt_from(s, skip_space(s, i + 1), skip_space(s, i + 1))
             ELSE punkt_from(s, i + 1, start)

punkt_sentences(s) == punkt_from(s, 1, 1)

sent_tokenize(s, data) ==
    IF data = "ok" THEN Return(punkt_sentences(s))
    ELSE IF data \in {"missing", "downloadable"} THEN Raise("LookupError")
    ELSE Raise("Error")

\* re.split(r'(?<=[.!?])\s+', text)
RECURSIVE regex_sentences_from(_, _, _)
regex_sentences_from(s, i, start) ==
    IF i > Len(s) THEN << SubSeq(s, start, Len(s)) >>
    ELSE IF i > 1 /\ s[i - 1] = "." /\ IsSpace(s[i])
         THEN << SubSeq(s, start, i - 1) >>
              \o regex_sentences_from(s, skip_space(s, i), skip_space(s, i))
         ELSE regex_sentences_from(s, i + 1, start)

regex_sentences(s) == regex_sentences_from(s, 1, 1)

\* the Treebank word tokenizer on one sentence: words are separated by
\* whitespace, every "#" is a token of its own, and so is the "." that ends
\* the sentence (unless another "." precedes it)
final_period(s) ==
    LET end == rstrip_end(s, Len(s))
    IN  IF end >= 1 /\ s[end] = "." /\ (end = 1 \/ s[end - 1] # ".")
        THEN end ELSE 0

flush(tokens, word) == IF word = <<>> THEN tokens ELSE Append(tokens, word)

RECURSIVE treebank_from(_, _, _, _)
treebank_from(s, i, tokens, word) ==
    IF i > Len(s) THEN flush(tokens, word)
    ELSE IF IsSpace(s[i])
         THEN treebank_from(s, i + 1, flush(tokens, word), <<>>)
    ELSE IF s[i] = "#" \/ i = final_period(s)
         THEN treebank_from(s, i + 1,
                            Append(flush(tokens, word), << s[i] >>), <<>>)
    ELSE treebank_from(s, i + 1, tokens, Append(word, s[i]))

treebank(s) == treebank_from(s, 1, <<>>, <<>>)

RECURSIVE treebank_all(_)
treebank_all(sentences) ==
    IF sentences = <<>> THEN <<>>
    ELSE treebank(Head(sentences)) \o treebank_all(Tail(sentences))

\* word_tokenize: the words of every sentence of sent_tokenize
word_tokenize(s, data) ==
    IF data = "ok" THEN Return(treebank_all(punkt_sentences(s)))
    ELSE IF data \in {"missing", "downloadable"} THEN Raise("LookupError")
    ELSE Raise("Error")

\* s.split(): the maximal runs of characters that are not whitespace
RECURSIVE whitespace_split_from(_, _, _, _)
whitespace_split_from(s, i, tokens, word) ==
    IF i > Len(s) THEN flush(tokens, word)
    ELSE IF IsSpace(s[i])
         THEN whitespace_split_from(s, i + 1, flush(tokens, word), <<>>)
    ELSE whitespace_split_from(s, i + 1, tokens, Append(word, s[i]))

whitespace_split(s) == whitespace_split_from(s, 1, <<>>, <<>>)

(***************************************************************************)
(* chunk_by_paragraphs                                                     *)
(***************************************************************************)
\* [p for p in text.split('\n\n') if p.strip()]
paragraphs_of(t) == SelectSeq(str_split(t, NLNL), strip_nonempty)

\* bool(re.match(r'^#{1,6}\s', para))
is_heading(para) ==
    \E h \in 1..6 :
        /\ Len(para) >= h + 1
        /\ \A k \in 1..h : para[k] = "#"
        /\ IsSpace(para[h + 1])

\* (variants of the two definitions below with a plausible slip, used to
\* show that the properties depend on the code)
start_new_chunk_off_by_one(current_count, heading, max_p) ==
    \/ current_count > max_p
    \/ (current_count > 0 /\ heading /\ current_count >= Max(2, max_p \div 2))

start_new_chunk_no_minimum(current_count, heading, max_p) ==
    \/ current_count >= max_p
    \/ (current_count > 0 /\ heading)

restart_chunk_empty(para) == << >>

\* the condition under which the loop closes the current chunk
start_new_chunk(current_count, heading, max_p) ==
    \/ current_count >= max_p
    \/ (current_count > 0 /\ heading /\ current_count >= Max(2, max_p \div 2))

\* current_chunk = [para] after a chunk was closed
restart_chunk(para) == << para >>

RECURSIVE paragraphs_loop(_, _, _, _, _, _)
paragraphs_loop(paragraphs, max_p, i, chunks, current_chunk, current_count) ==
    IF i > Len(paragraphs)
    THEN IF current_chunk # <<>>
         THEN Append(chunks, join(current_chunk, NLNL))
         ELSE chunks
    ELSE LET para == paragraphs[i]
         IN  IF start_new_chunk(current_count, is_heading(para), max_p)
             THEN paragraphs_loop(paragraphs, max_p, i + 1,
                                  Append(chunks, join(current_chunk, NLNL)),
                                  restart_chunk(para), 1)
             ELSE paragraphs_loop(paragraphs, max_p, i + 1, chunks,
                                  Append(current_chunk, para),
                                  current_count + 1)

chunk_by_paragraphs(t, max_p) ==
    LET paragraphs == paragraphs_of(t)
    IN  IF paragraphs = <<>> THEN << <<>> >>
        ELSE paragraphs_loop(paragraphs, max_p, 1, <<>>, <<>>, 0)

(***************************************************************************)
(* chunk_by_tokens                                                         *)
(***************************************************************************)
\* lines 392-401: sent_tokenize; on LookupError a download and a second try;
\* if the second try fails in any way, the regex split.  An error of the
\* first try that is not a LookupError is not caught.
sentences_of(t, data) ==
    LET first == sent_tokenize(t, data)
    IN  IF ~first.exc THEN first
        ELSE IF first.kind = "LookupError"
             THEN LET second == sent_tokenize(t, nltk_download(data))
                  IN  IF ~second.exc THEN second
                      ELSE Return(regex_sentences(t))
        ELSE first

close_chunk_ignores_budget(current_token_count, count, current_chunk, max_t) ==
    count > max_t /\ current_chunk # <<>>

\* lines 409-413
sentence_token_count(sentence, data) ==
    LET words == word_tokenize(sentence, data)
    IN  IF ~words.exc THEN Len(words.val)
        ELSE Len(whitespace_split(sentence))

\* line 415
close_chunk(current_token_count, count, current_chunk, max_t) ==
    current_token_count + count > max_t /\ current_chunk # <<>>

RECURSIVE tokens_loop(_, _, _, _, _, _, _)
tokens_loop(sentences, data, max_t, i, chunks, current_chunk, current_token_count) ==
    IF i > Len(sentences)
    THEN IF current_chunk # <<>>
         THEN Append(chunks, join(current_chunk, SP))
         ELSE chunks
    ELSE LET sentence == sentences[i]
             count == sentence_token_count(sentence, data)
         IN  IF close_chunk(current_token_count, count, current_chunk, max_t)
             THEN tokens_loop(sentences, data, max_t, i + 1,
                              Append(chunks, join(current_chunk, SP)),
                              << sentence >>, count)
             ELSE tokens_loop(sentences, data, max_t, i + 1, chunks,
                              Append(current_chunk, sentence),
                              current_token_count + count)

\* the download of line 396 is made exactly when the data is missing, so the
\* words of the loop are counted with the data as the download left it
chunk_by_tokens(t, max_t, data) ==
    LET sentences == sentences_of(t, data)
        after == nltk_download(data)
    IN  IF sentences.exc THEN sentences
        ELSE Return(tokens_loop(sentences.val, after, max_t, 1, <<>>, <<>>, 0))

\* the state of the tokenizer data when chunk_by_tokens returns
data_after_tokens(data) == nltk_download(data)

(***************************************************************************)
(* chunk_by_structure                                                      *)
(***************************************************************************)
\* index of the last character of the run of c that starts at i (i - 1 if
\* there is none)
RECURSIVE run_end(_, _, _)
run_end(s, i, C) ==
    IF i <= Len(s) /\ s[i] \in C THEN run_end(s, i + 1, C) ELSE i - 1

\* index of the last character of the line that character i is on
RECURSIVE line_end(_, _)
line_end(s, i) ==
    IF i < Len(s) /\ s[i + 1] # NL THEN line_end(s, i + 1) ELSE i

\* where the title (.+) starts when the whitespace (\s+) ran up to ws_end:
\* \s+ is greedy and gives back whitespace until a character follows that
\* is not a newline; 0 if no such split exists
RECURSIVE title_start(_, _, _)
title_start(s, ws_first, ws_end) ==
    IF ws_end < ws_first THEN 0
    ELSE IF ws_end + 1 <= Len(s) /\ s[ws_end + 1] # NL THEN ws_end + 1
    ELSE title_start(s, ws_first, ws_end - 1)

\* #+\s+.+ matched at h: the index of the last character of the match, 0 if
\* there is no match
heading_end(s, h) ==
    LET hashes == run_end(s, h, {"#"})
        spaces == run_end(s, hashes + 1, {" ", NL})
        title  == title_start(s, hashes + 1, spaces)
    IN  IF h > Len(s) \/ hashes < h \/ spaces <= hashes \/ title = 0 THEN 0
        ELSE line_end(s, title)

\* the groups of (^|\n)(#+\s+.+)(\n|$) matched at p, and where the match ends
match_at(s, p) ==
    LET line_start == p = 1 \/ s[p - 1] = NL
        h == IF line_start /\ heading_end(s, p) # 0 THEN p
             ELSE IF p <= Len(s) /\ s[p] = NL /\ heading_end(s, p + 1) # 0
                  THEN p + 1
             ELSE 0
        e == heading_end(s, h)
        g3 == IF e < Len(s) THEN << NL >> ELSE <<>>
    IN  IF h = 0 THEN [found |-> FALSE]
        ELSE [found |-> TRUE,
              groups |-> << SubSeq(s, p, h - 1), SubSeq(s, h, e), g3 >>,
              end |-> e + Len(g3)]

\* re.split(heading_pattern, text, flags=re.MULTILINE): the text before each
\* match and the three groups of the match, then the text after the last match
RECURSIVE re_split_from(_, _, _)
re_split_from(s, p, last) ==
    IF p > Len(s) THEN << SubSeq(s, last, Len(s)) >>
    ELSE LET m == match_at(s, p)
         IN  IF m.found
             THEN << SubSeq(s, last, p - 1) >> \o m.groups
                  \o re_split_from(s, m.end + 1, m.end + 1)
             ELSE re_split_from(s, p + 1, last)

re_split_headings(s) == re_split_from(s, 1, 1)

\* parts[k] with Python's index from 0
item(parts, k) == parts[k + 1]

\* lines 369-371
section_of(parts, i) == item(parts, i + 1) \o item(parts, i + 2)

\* lines 365-371: for i in range(1, len(parts), 4)
RECURSIVE sections_from(_, _)
sections_from(parts, i) ==
    IF i >= Len(parts) THEN <<>>
    ELSE IF i + 2 < Len(parts)
         THEN << section_of(parts, i) >> \o sections_from(parts, i + 4)
         ELSE sections_from(parts, i + 4)

sections_of(t) == sections_from(re_split_headings(t), 1)

within_budget_strict(section_tokens, max_t) == section_tokens < max_t

\* line 381
within_budget(section_tokens, max_t) == section_tokens <= max_t

\* lines 378-388; word_tokenize at line 380 is called outside any try
RECURSIVE structure_loop(_, _, _, _, _)
structure_loop(sections, data, max_t, i, chunks) ==
    IF i > Len(sections) THEN Return(chunks)
    ELSE LET section == sections[i]
             words == word_tokenize(section, data)
         IN  IF words.exc THEN words
             ELSE IF within_budget(Len(words.val), max_t)
                  THEN structure_loop(sections, data, max_t, i + 1,
                                      Append(chunks, section))
             ELSE LET sub_chunks == chunk_by_tokens(section, max_t, data)
                  IN  IF sub_chunks.exc THEN sub_chunks
                      ELSE structure_loop(sections, data, max_t, i + 1,
                                          chunks \o sub_chunks.val)

chunk_by_structure(t, max_t, data) ==
    LET sections == sections_of(t)
    IN  IF sections = <<>>
        THEN Return(chunk_by_paragraphs(t, Max(3, max_t \div 100)))
        ELSE structure_loop(sections, data, max_t, 1, <<>>)

(***************************************************************************)
(* chunk_by_semantic_similarity                                            *)
(*                                                                         *)
(* The TF-IDF vectorizer and cosine_similarity are scikit-learn's:         *)
(* has_sklearn says whether the import succeeded, vectorizer_fails whether *)
(* fit_transform raises on the paragraphs (it does when no paragraph has a *)
(* term outside the stop words), and similarities is the matrix it         *)
(* returns otherwise, in hundredths.                                       *)
(***************************************************************************)
merge_paragraph_at_threshold(similarity_to_current, threshold, current_token_count, paragraph_token_count, max_t) ==
    /\ similarity_to_current >= threshold
    /\ current_token_count + paragraph_token_count <= max_t

\* line 337
merge_paragraph(similarity_to_current, threshold, current_token_count, paragraph_token_count, max_t) ==
    /\ similarity_to_current > threshold
    /\ current_token_count + paragraph_token_count <= max_t

\* lines 331-351
RECURSIVE semantic_loop(_, _, _, _, _, _, _, _, _, _)
semantic_loop(paragraphs, data, sims, threshold, max_t, i, chunks, current_chunk, current_token_count, current_idx) ==
    IF i > Len(paragraphs)
    THEN IF current_chunk # <<>>
         THEN Return(Append(chunks, join(current_chunk, NLNL)))
         ELSE Return(chunks)
    ELSE LET words == word_tokenize(paragraphs[i], data)
             paragraph_token_count == Len(words.val)
             similarity_to_current == sims[current_idx][i]
         IN  IF words.exc THEN words
             ELSE IF merge_paragraph(similarity_to_current, threshold,
                                     current_token_count,
                                     paragraph_token_count, max_t)
                  THEN semantic_loop(paragraphs, data, sims, threshold,
                                     max_t, i + 1, chunks,
                                     Append(current_chunk, paragraphs[i]),
                                     current_token_count
                                         + paragraph_token_count,
                                     current_idx)
             ELSE semantic_loop(paragraphs, data, sims, threshold, max_t,
                                i + 1,
                                Append(chunks, join(current_chunk, NLNL)),
                                << paragraphs[i] >>, paragraph_token_count, i)

\* lines 307-351, the body of the try
semantic_try(t, max_t, threshold, data, sims, fails) ==
    LET paragraphs == paragraphs_of(t)
        first == word_tokenize(paragraphs[1], data)
    IN  IF paragraphs = <<>> THEN Return(<< <<>> >>)
        ELSE IF Len(paragraphs) <= 3 THEN chunk_by_tokens(t, max_t, data)
        ELSE IF fails THEN chunk_by_tokens(t, max_t, data)
        ELSE IF first.exc THEN first
        ELSE semantic_loop(paragraphs, data, sims, threshold, max_t, 2, <<>>,
                           << paragraphs[1] >>, Len(first.val), 1)

\* lines 300-355: an exception of the try is answered by chunk_by_tokens
chunk_by_semantic_similarity(t, max_t, threshold, sklearn, data, sims, fails) ==
    IF ~sklearn THEN chunk_by_tokens(t, max_t, data)
    ELSE LET tried == semantic_try(t, max_t, threshold, data, sims, fails)
         IN  IF tried.exc THEN chunk_by_tokens(t, max_t, data)
             ELSE tried

\* the state of the tokenizer data when chunk_by_semantic_similarity
\* returns: every path but the return of line 310 and the completed pass
\* goes through chunk_by_tokens
data_after_semantic(t, sklearn, data) ==
    IF sklearn /\ paragraphs_of(t) = <<>> THEN data
    ELSE data_after_tokens(data)

(***************************************************************************)
(* extract_keywords                                                        *)
(***************************************************************************)
\* str.lower() on the letters of the model
lower(c) ==
    IF c = "C" THEN "c" ELSE IF c = "D" THEN "d" ELSE IF c = "T" THEN "t"
    ELSE c

str_lower(s) == [i \in 1..Len(s) |-> lower(s[i])]

\* string.punctuation, as far as the strings of the model use it
punctuation == { "!", "#", "(", ")", ",", "-", ".", "/", ":", "?", "~" }

\* the English stop words of nltk.corpus, as far as the letters of the model spell them
english_stopwords ==
    { <<"t", "h", "e">>, <<"t", "o">>, <<"d", "o">>, <<"a">>, <<"a", "t">> }

\* lines 433-440 (the glyphs of line 440 are outside the model's alphabet)
stops == english_stopwords \cup { << c >> : c \in punctuation }

is_keyword_keeps_short(word) == word \notin stops /\ Len(word) >= 2

\* line 444
is_keyword(word) == word \notin stops /\ Len(word) > 2

RECURSIVE count_of(_, _)
count_of(word, words) ==
    IF words = <<>> THEN 0
    ELSE (IF Head(words) = word THEN 1 ELSE 0) + count_of(word, Tail(words))

\* the keys of Counter(words), in the order of their first occurrence
RECURSIVE distinct(_, _)
distinct(words, seen) ==
    IF words = <<>> THEN seen
    ELSE IF \E k \in 1..Len(seen) : seen[k] = Head(words)
         THEN distinct(Tail(words), seen)
         ELSE distinct(Tail(words), Append(seen, Head(words)))

\* Counter.most_common(n): the n keys of the highest counts, keys of equal
\* count in the order of their first occurrence
RECURSIVE most_common(_, _, _)
most_common(keys, words, n) ==
    IF n <= 0 \/ keys = <<>> THEN <<>>
    ELSE LET best == CHOOSE k \in 1..Len(keys) :
                       /\ \A j \in 1..Len(keys) :
                             count_of(keys[j], words)
                                 <= count_of(keys[k], words)
                       /\ \A j \in 1..(k - 1) :
                             count_of(keys[j], words)
                                 < count_of(keys[k], words)
             rest == [j \in 1..(Len(keys) - 1) |->
                         IF j < best THEN keys[j] ELSE keys[j + 1]]
         IN  << keys[best] >> \o most_common(rest, words, n - 1)

\* str(e) of the tokenizer's exception
error_message(kind) ==
    IF kind = "LookupError"
    THEN << "p", "u", "n", "k", "t", " ", "n", "o", "t", " ", "f", "o", "u", "n", "d" >>
    ELSE << "e", "r", "r", "o", "r" >>

error_extracting_keywords ==
    << "E", "r", "r", "o", "r", " ", "e", "x", "t", "r", "a", "c", "t",
       "i", "n", "g", " ", "k", "e", "y", "w", "o", "r", "d", "s", ":",
       " " >>

\* lines 429-455; the result is always a list, an error of the tokenizer
\* becomes the only entry of the list
extract_keywords(t, max_k, data) ==
    LET tokens == word_tokenize(str_lower(t), data)
        words == SelectSeq(tokens.val, is_keyword)
    IN  IF tokens.exc
        THEN << error_extracting_keywords \o error_message(tokens.kind) >>
        ELSE most_common(distinct(words, <<>>), words, max_k)

(***************************************************************************)
(* add_metadata                                                            *)
(***************************************************************************)
\* str(n) for n >= 0
Digit == << "0", "1", "2", "3", "4", "5", "6", "7", "8", "9" >>

RECURSIVE str_int(_)
str_int(n) ==
    IF n < 10 THEN << Digit[n + 1] >>
    ELSE str_int(n \div 10) \o << Digit[(n % 10) + 1] >>

\* the number printed for the chunk that enumerate() gives index i
chunk_number_zero_based(i) == i

chunk_number(i) == i + 1

\* lines 462-469; has(key) is: key in st.session_state
keywords_section(chunk, state, data) ==
    LET has(key) == key \in DOMAIN state
        max_kw == IF has("max_keywords") THEN state.max_keywords
                  ELSE DefaultMaxKeywords
    IN  IF has("extract_keywords") /\ state.extract_keywords
        THEN
             << "K", "E", "Y", "W", "O", "R", "D", "S", ":", " " >>
             \o join(extract_keywords(chunk, max_kw, data), << ",", " " >>)
             \o << NL >>
        ELSE <<>>

\* lines 474-481
metadata_header(i, total, filename, chunking_method, token_count, keywords) ==
    << "-", "-", "-", NL, "C", "H", "U", "N", "K", ":", " " >>
    \o str_int(chunk_number(i)) \o << "/" >> \o str_int(total)
    \o
    << NL, "S", "O", "U", "R", "C", "E", ":", " " >>
    \o filename \o
    << NL, "C", "H", "U", "N", "K", "I", "N", "G", "_", "M", "E", "T",
       "H", "O", "D", ":", " " >>
    \o chunking_method \o
    << NL, "T", "O", "K", "E", "N", "S", ":", " ", "~" >>
    \o str_int(token_count) \o << NL >> \o keywords
    \o << "-", "-", "-", NL, NL >>

\* lines 458-484; i is enumerate()'s index; word_tokenize at line 472 is
\* called outside any try
RECURSIVE metadata_loop(_, _, _, _, _, _, _)
metadata_loop(chunks, filename, chunking_method, state, data, i, out) ==
    IF i >= Len(chunks) THEN Return(out)
    ELSE LET chunk == item(chunks, i)
             keywords == keywords_section(chunk, state, data)
             words == word_tokenize(chunk, data)
             metadata == metadata_header(i, Len(chunks), filename,
                                         chunking_method, Len(words.val),
                                         keywords)
         IN  IF words.exc THEN words
             ELSE metadata_loop(chunks, filename, chunking_method, state,
                                data, i + 1, Append(out, metadata \o chunk))

add_metadata(chunks, filename, chunking_method, state, data) ==
    metadata_loop(chunks, filename, chunking_method, state, data, 0, <<>>)

(***************************************************************************)
(* State machine: the inputs of a call are drawn by Init, a call stores    *)
(* its result.                                                             *)
(***************************************************************************)
NoCall == "none"

NoSession == [extract_keywords |-> FALSE, max_keywords |-> DefaultMaxKeywords]

\* outside the pages of the application no widget and no page is shown
NoWidgets == << >>

NoPage == "none"

ParaPieces == { <<"w">>, <<"#", " ">>, NLNL, <<NL>> }

InitParagraphs ==
    /\ text \in Texts(ParaPieces, MaxParaPieces)
    /\ max_paragraphs \in 1..MaxParagraphsPerChunk
    /\ max_tokens = DefaultMaxTokens
    /\ similarity_threshold = DefaultThreshold
    /\ has_sklearn = TRUE
    /\ nltk_data = "ok"
    /\ similarities = <<>>
    /\ vectorizer_fails = FALSE
    /\ chunks_in = <<>>
    /\ session_state = NoSession
    /\ max_keywords = DefaultMaxKeywords
    /\ call = NoCall
    /\ result = Return(<<>>)
    /\ returned = <<>>
    /\ document_chunks = <<>>
    /\ widgets = NoWidgets
    /\ rendered_page = NoPage

CallParagraphs ==
    /\ call = NoCall
    /\ call' = "chunk_by_paragraphs"
    /\ result' = Return(chunk_by_paragraphs(text, max_paragraphs))
    /\ UNCHANGED <<text, max_paragraphs, max_tokens, similarity_threshold,
                   has_sklearn, nltk_data, similarities, vectorizer_fails,
                   chunks_in, max_keywords, session_state,
                   returned, document_chunks, widgets, rendered_page>>

NextParagraphs == CallParagraphs

SpecParagraphs == InitParagraphs /\ [][NextParagraphs]_vars

TokenPieces == { <<"w">>, <<" ">>, <<".">>, <<".", " ">> }

InitTokens ==
    /\ text \in Texts(TokenPieces, MaxTokenPieces)
    /\ max_tokens \in 1..MaxTokens
    /\ nltk_data \in NltkData
    /\ max_paragraphs = DefaultMaxParagraphs
    /\ similarity_threshold = DefaultThreshold
    /\ has_sklearn = TRUE
    /\ similarities = <<>>
    /\ vectorizer_fails = FALSE
    /\ chunks_in = <<>>
    /\ session_state = NoSession
    /\ max_keywords = DefaultMaxKeywords
    /\ call = NoCall
    /\ result = Return(<<>>)
    /\ returned = <<>>
    /\ document_chunks = <<>>
    /\ widgets = NoWidgets
    /\ rendered_page = NoPage

CallTokens ==
    /\ call = NoCall
    /\ call' = "chunk_by_tokens"
    /\ result' = chunk_by_tokens(text, max_tokens, nltk_data)
    /\ UNCHANGED <<text, max_paragraphs, max_tokens, similarity_threshold,
                   has_sklearn, nltk_data, similarities, vectorizer_fails,
                   chunks_in, max_keywords, session_state,
                   returned, document_chunks, widgets, rendered_page>>

NextTokens == CallTokens

SpecTokens == InitTokens /\ [][NextTokens]_vars

SemanticPieces == { <<"w">>, <<"w", " ", "w">>, NLNL }

\* what cosine_similarity can return for n paragraphs: a symmetric matrix
\* with 1.00 on the diagonal
SimilarityValues == {30, 40}

SimilarityMatrices(n) ==
    { [i \in 1..n |-> [j \in 1..n |->
          IF i = j THEN 100 ELSE u[<< Min(i, j), Max(i, j) >>]]] :
      u \in [ { ij \in (1..n) \X (1..n) : ij[1] < ij[2] }
               -> SimilarityValues ] }

InitSemantic ==
    /\ text \in Texts(SemanticPieces, MaxSemanticPieces)
    /\ max_tokens \in 1..MaxTokens
    /\ similarity_threshold = DefaultThreshold
    /\ has_sklearn \in BOOLEAN
    /\ nltk_data \in NltkData
    /\ vectorizer_fails \in (IF has_sklearn THEN BOOLEAN ELSE {FALSE})
    /\ similarities \in
          IF has_sklearn /\ ~vectorizer_fails
             /\ Len(paragraphs_of(text)) > 3
          THEN SimilarityMatrices(Len(paragraphs_of(text)))
          ELSE { <<>> }
    /\ max_paragraphs = DefaultMaxParagraphs
    /\ chunks_in = <<>>
    /\ session_state = NoSession
    /\ max_keywords = DefaultMaxKeywords
    /\ call = NoCall
    /\ result = Return(<<>>)
    /\ returned = <<>>
    /\ document_chunks = <<>>
    /\ widgets = NoWidgets
    /\ rendered_page = NoPage

CallSemantic ==
    /\ call = NoCall
    /\ call' = "chunk_by_semantic_similarity"
    /\ result' = chunk_by_semantic_similarity(text, max_tokens,
                      similarity_threshold, has_sklearn, nltk_data,
                      similarities, vectorizer_fails)
    /\ UNCHANGED <<text, max_paragraphs, max_tokens, similarity_threshold,
                   has_sklearn, nltk_data, similarities, vectorizer_fails,
                   chunks_in, max_keywords, session_state,
                   returned, document_chunks, widgets, rendered_page>>

NextSemantic == CallSemantic

SpecSemantic == InitSemantic /\ [][NextSemantic]_vars

StructurePieces ==
    { <<"w">>, <<" ">>, <<NL>>, <<"#">>, <<"#", " ">>, <<".", " ">> }


InitStructure ==
    /\ text \in Texts(StructurePieces, MaxStructurePieces)
    /\ max_tokens \in (1..MaxTokens) \cup {DefaultMaxTokens}
    /\ nltk_data \in NltkData
    /\ max_paragraphs = DefaultMaxParagraphs
    /\ similarity_threshold = DefaultThreshold
    /\ has_sklearn = TRUE
    /\ similarities = <<>>
    /\ vectorizer_fails = FALSE
    /\ chunks_in = <<>>
    /\ session_state = NoSession
    /\ max_keywords = DefaultMaxKeywords
    /\ call = NoCall
    /\ result = Return(<<>>)
    /\ returned = <<>>
    /\ document_chunks = <<>>
    /\ widgets = NoWidgets
    /\ rendered_page = NoPage

CallStructure ==
    /\ call = NoCall
    /\ call' = "chunk_by_structure"
    /\ result' = chunk_by_structure(text, max_tokens, nltk_data)
    /\ UNCHANGED <<text, max_paragraphs, max_tokens, similarity_threshold,
                   has_sklearn, nltk_data, similarities, vectorizer_fails,
                   chunks_in, max_keywords, session_state,
                   returned, document_chunks, widgets, rendered_page>>

NextStructure == CallStructure

SpecStructure == InitStructure /\ [][NextStructure]_vars

\* chunk_by_structure on texts made of whole lines: heading lines of one
\* and of two sentences, body lines and blank lines
SectionPieces ==
    { << "#", " ", "w", NL >>, << "#", " ", "w", ".", " ", "w", NL >>,
      << "w", NL >>, << NL >> }

InitSections ==
    /\ text \in Texts(SectionPieces, MaxSectionPieces)
    /\ max_tokens \in (1..MaxTokens) \cup {DefaultMaxTokens}
    /\ nltk_data \in NltkData
    /\ max_paragraphs = DefaultMaxParagraphs
    /\ similarity_threshold = DefaultThreshold
    /\ has_sklearn = TRUE
    /\ similarities = <<>>
    /\ vectorizer_fails = FALSE
    /\ chunks_in = <<>>
    /\ session_state = NoSession
    /\ max_keywords = DefaultMaxKeywords
    /\ call = NoCall
    /\ result = Return(<<>>)
    /\ returned = <<>>
    /\ document_chunks = <<>>
    /\ widgets = NoWidgets
    /\ rendered_page = NoPage

NextSections == CallStructure

SpecSections == InitSections /\ [][NextSections]_vars

\* the four chunkers on the same texts
ChunkerPieces ==
    { <<"w">>, <<" ">>, <<"w", NL, NL>>, <<"#", " ", "w", NL>>,
      <<"w", ".", " ">> }

InitChunkers ==
    /\ text \in Texts(ChunkerPieces, MaxChunkerPieces)
    /\ max_tokens \in 1..MaxTokens
    /\ max_paragraphs \in {1, DefaultMaxParagraphs}
    /\ nltk_data \in NltkData
    /\ has_sklearn \in BOOLEAN
    /\ vectorizer_fails = FALSE
    /\ similarity_threshold = DefaultThreshold
    /\ similarities \in
          IF has_sklearn /\ Len(paragraphs_of(text)) > 3
          THEN SimilarityMatrices(Len(paragraphs_of(text)))
          ELSE { <<>> }
    /\ chunks_in = <<>>
    /\ session_state = NoSession
    /\ max_keywords = DefaultMaxKeywords
    /\ call = NoCall
    /\ result = Return(<<>>)
    /\ returned = <<>>
    /\ document_chunks = <<>>
    /\ widgets = NoWidgets
    /\ rendered_page = NoPage

NextChunkers ==
    \/ CallParagraphs
    \/ CallTokens
    \/ CallStructure
    \/ CallSemantic

SpecChunkers == InitChunkers /\ [][NextChunkers]_vars

\* the chunks, the file name and the description handed to add_metadata
ChunkStrings ==
    { <<>>,
      << "t", "o", " ", "C", "a", "t", NL, "c", "a", "t", "." >> }

SourceName == << "a", ".", "m", "d" >>

MethodDescription == << "T", "o", "k", "e", "n", "s" >>

SessionStates ==
    { [current_page |-> "process"],
      [current_page |-> "process", extract_keywords |-> FALSE],
      [current_page |-> "process", extract_keywords |-> TRUE] }
    \cup { [current_page |-> "process", extract_keywords |-> TRUE,
             max_keywords |-> k] : k \in 0..MaxKeywords }

InitMetadata ==
    /\ chunks_in \in UNION { [1..n -> ChunkStrings] : n \in 0..MaxChunks }
    /\ session_state \in SessionStates
    /\ nltk_data \in NltkData
    /\ text = <<>>
    /\ max_tokens = DefaultMaxTokens
    /\ max_paragraphs = DefaultMaxParagraphs
    /\ similarity_threshold = DefaultThreshold
    /\ has_sklearn = TRUE
    /\ similarities = <<>>
    /\ vectorizer_fails = FALSE
    /\ max_keywords = DefaultMaxKeywords
    /\ call = NoCall
    /\ result = Return(<<>>)
    /\ returned = <<>>
    /\ document_chunks = <<>>
    /\ widgets = NoWidgets
    /\ rendered_page = NoPage

CallAddMetadata ==
    /\ call = NoCall
    /\ call' = "add_metadata"
    /\ result' = add_metadata(chunks_in, SourceName, MethodDescription,
                              session_state, nltk_data)
    /\ UNCHANGED <<text, max_paragraphs, max_tokens, similarity_threshold,
                   has_sklearn, nltk_data, similarities, vectorizer_fails,
                   chunks_in, max_keywords, session_state,
                   returned, document_chunks, widgets, rendered_page>>

NextMetadata == CallAddMetadata

SpecMetadata == InitMetadata /\ [][NextMetadata]_vars

\* the chunk texts handed to extract_keywords: words separated by blanks,
\* among them a capitalised word, a stop word, a short word and a period
KeywordPieces ==
    { <<"c", "a", "t", " ">>, <<"C", "a", "t", " ">>, <<"d", "o", "t", " ">>,
      <<"t", "h", "e", " ">>, <<"a", "d", " ">>, <<".", " ">> }

InitKeywords ==
    /\ text \in Texts(KeywordPieces, MaxKeywordPieces)
    /\ max_keywords \in 0..MaxKeywordsAsked
    /\ nltk_data \in NltkData
    /\ max_tokens = DefaultMaxTokens
    /\ max_paragraphs = DefaultMaxParagraphs
    /\ similarity_threshold = DefaultThreshold
    /\ has_sklearn = TRUE
    /\ similarities = <<>>
    /\ vectorizer_fails = FALSE
    /\ chunks_in = <<>>
    /\ session_state = NoSession
    /\ call = NoCall
    /\ result = Return(<<>>)
    /\ returned = <<>>
    /\ document_chunks = <<>>
    /\ widgets = NoWidgets
    /\ rendered_page = NoPage

CallExtractKeywords ==
    /\ call = NoCall
    /\ call' = "extract_keywords"
    /\ result' = Return(extract_keywords(text, max_keywords, nltk_data))
    /\ UNCHANGED <<text, max_paragraphs, max_tokens, similarity_threshold,
                   has_sklearn, nltk_data, similarities, vectorizer_fails,
                   chunks_in, max_keywords, session_state,
                   returned, document_chunks, widgets, rendered_page>>

NextKeywords == CallExtractKeywords

SpecKeywords == InitKeywords /\ [][NextKeywords]_vars

\* the chunkers called again and again on one text with one configuration;
\* returned is the log of the calls made
RepeatPieces ==
    { <<"w", NL, NL>>, <<"#", " ", "w", NL>>, <<"w", ".", " ">> }

\* a similarity matrix with one value off the diagonal
UniformSimilarities(n) ==
    { [i \in 1..n |-> [j \in 1..n |-> IF i = j THEN 100 ELSE u]] :
      u \in SimilarityValues }

InitRepeat ==
    /\ text \in Texts(RepeatPieces, MaxRepeatPieces)
    /\ max_tokens = 2
    /\ max_paragraphs = 1
    /\ \E installed \in NltkInstalled :
          nltk_data = nltk_after_import(installed)
    /\ has_sklearn \in BOOLEAN
    /\ vectorizer_fails = FALSE
    /\ similarity_threshold = DefaultThreshold
    /\ similarities \in
          IF has_sklearn /\ Len(paragraphs_of(text)) > 3
          THEN UniformSimilarities(Len(paragraphs_of(text)))
          ELSE { <<>> }
    /\ chunks_in = <<>>
    /\ session_state = NoSession
    /\ max_keywords = DefaultMaxKeywords
    /\ call = NoCall
    /\ result = Return(<<>>)
    /\ returned = <<>>
    /\ document_chunks = <<>>
    /\ widgets = NoWidgets
    /\ rendered_page = NoPage

\* a call of a chunker: what it returns is logged, and the tokenizer data
\* is left as the call left it
RepeatParagraphs ==
    /\ Len(returned) < MaxCalls
    /\ call' = "chunk_by_paragraphs"
    /\ result' = Return(chunk_by_paragraphs(text, max_paragraphs))
    /\ returned' = Append(returned, [chunker |-> call', result |-> result'])
    /\ nltk_data' = nltk_data
    /\ UNCHANGED <<text, max_paragraphs, max_tokens, similarity_threshold,
                   has_sklearn, similarities, vectorizer_fails, chunks_in,
                   max_keywords, session_state, document_chunks, widgets,
                   rendered_page>>

RepeatTokens ==
    /\ Len(returned) < MaxCalls
    /\ call' = "chunk_by_tokens"
    /\ result' = chunk_by_tokens(text, max_tokens, nltk_data)
    /\ returned' = Append(returned, [chunker |-> call', result |-> result'])
    /\ nltk_data' = data_after_tokens(nltk_data)
    /\ UNCHANGED <<text, max_paragraphs, max_tokens, similarity_threshold,
                   has_sklearn, similarities, vectorizer_fails, chunks_in,
                   max_keywords, session_state, document_chunks, widgets,
                   rendered_page>>

RepeatStructure ==
    /\ Len(returned) < MaxCalls
    /\ call' = "chunk_by_structure"
    /\ result' = chunk_by_structure(text, max_tokens, nltk_data)
    /\ returned' = Append(returned, [chunker |-> call', result |-> result'])
    /\ nltk_data' = nltk_data
    /\ UNCHANGED <<text, max_paragraphs, max_tokens, similarity_threshold,
                   has_sklearn, similarities, vectorizer_fails, chunks_in,
                   max_keywords, session_state, document_chunks, widgets,
                   rendered_page>>

RepeatSemantic ==
    /\ Len(returned) < MaxCalls
    /\ call' = "chunk_by_semantic_similarity"
    /\ result' = chunk_by_semantic_similarity(text, max_tokens,
                     similarity_threshold, has_sklearn, nltk_data,
                     similarities, vectorizer_fails)
    /\ returned' = Append(returned, [chunker |-> call', result |-> result'])
    /\ nltk_data' = data_after_semantic(text, has_sklearn, nltk_data)
    /\ UNCHANGED <<text, max_paragraphs, max_tokens, similarity_threshold,
                   has_sklearn, similarities, vectorizer_fails, chunks_in,
                   max_keywords, session_state, document_chunks, widgets,
                   rendered_page>>

NextRepeat ==
    \/ RepeatParagraphs
    \/ RepeatTokens
    \/ RepeatStructure
    \/ RepeatSemantic

SpecRepeat == InitRepeat /\ [][NextRepeat]_vars

(***************************************************************************)
(* The pages of the application.  session_state is st.session_state, a     *)
(* record of the attributes set so far; widgets holds what the file        *)
(* uploader and the option widgets of the sidebar show, and rendered_page  *)
(* the page the last run of the script rendered.  An uploaded file is a    *)
(* record of its name, its text and the position of its read pointer.      *)
(***************************************************************************)
\* lines 138-148
InitialSession ==
    [uploaded_files |-> <<>>, conversion_done |-> FALSE,
     processed_files |-> <<>>, merged_content |-> <<>>,
     current_page |-> "home"]

Pages == {"home", "upload", "process", "about"}

\* the values the option widgets of the sidebar start with (lines 525-612)
DefaultOptions ==
    [output_format |-> "Single Merged File", chunking_enabled |-> FALSE,
     chunking_method |-> "Smart Paragraph",
     paragraphs_per_chunk |-> DefaultMaxParagraphs,
     tokens_per_chunk |-> DefaultMaxTokens,
     similarity_threshold |-> DefaultThreshold, add_metadata |-> TRUE,
     extract_keywords |-> TRUE, max_keywords |-> DefaultMaxKeywords]

ChunkingMethods ==
    {"Smart Paragraph", "Semantic", "Structure-based", "Token-based"}

\* lines 524-612: the sidebar stores the value of every option widget it
\* shows; a widget under an unchecked box is not shown and its attribute
\* keeps the value it had
sidebar_options(state, w) ==
    LET method == IF w.chunking_enabled
                  THEN [chunking_method |-> w.chunking_method]
                  ELSE << >>
        slider == IF ~w.chunking_enabled THEN << >>
                  ELSE IF w.chunking_method = "Smart Paragraph"
                       THEN [paragraphs_per_chunk |-> w.paragraphs_per_chunk]
                  ELSE IF w.chunking_method = "Semantic"
                       THEN [tokens_per_chunk |-> w.tokens_per_chunk,
                             similarity_threshold |-> w.similarity_threshold]
                  ELSE [tokens_per_chunk |-> w.tokens_per_chunk]
        keywords == IF ~w.add_metadata THEN << >>
                    ELSE IF w.extract_keywords
                         THEN [extract_keywords |-> TRUE,
                               max_keywords |-> w.max_keywords]
                    ELSE [extract_keywords |-> FALSE]
    IN  [output_format |-> w.output_format,
         chunking_enabled |-> w.chunking_enabled,
         add_metadata |-> w.add_metadata]
        @@ method @@ slider @@ keywords @@ state

\* the documents a user uploads: text files, none with four paragraphs
DocumentA ==
    [name |-> << "a", ".", "m", "d" >>,
     content |-> << "#", " ", "w", "\n", "w", "\n", "\n", "w" >>]

DocumentB ==
    [name |-> << "b", ".", "t", "x", "t" >>,
     content |-> << "w", ".", " ", "w" >>]

DocumentC ==
    [name |-> << "c", ".", "m", "d" >>,
     content |-> << >>]

Documents == {DocumentA, DocumentB, DocumentC}

\* what st.file_uploader returns: the selected files, each with its read
\* pointer at the start
UploadedFile(document) ==
    [name |-> document.name, content |-> document.content,
     position |-> "start"]

FileLists(n) ==
    { [k \in 1..Len(files) |-> UploadedFile(files[k])] :
      files \in { f \in UNION { [1..m -> Documents] : m \in 0..n } :
                    \A i, j \in 1..Len(f) : i # j => f[i] # f[j] } }

\* lines 168-169: file.read().decode("utf-8") reads from the pointer on
read_file(file) == IF file.position = "start" THEN file.content ELSE << >>

\* lines 245-266, for the text formats
process_file(file) == read_file(file)

RECURSIVE last_dot(_, _)
last_dot(name, i) ==
    IF i = 0 THEN 0 ELSE IF name[i] = "." THEN i ELSE last_dot(name, i - 1)

\* os.path.splitext(name)[0]
splitext_root(name) ==
    LET k == last_dot(name, Len(name))
    IN  IF k <= 1 THEN name ELSE SubSeq(name, 1, k - 1)

\* line 731
md_name(name) == splitext_root(name) \o << ".", "m", "d" >>

\* str() of a similarity threshold given in hundredths
str_hundredths(h) ==
    << "0", "." >> \o << Digit[(h \div 10) + 1] >>
    \o (IF h % 10 = 0 THEN << >> ELSE << Digit[(h % 10) + 1] >>)

\* line 703
similarity_of(state) ==
    IF "similarity_threshold" \in DOMAIN state
    THEN state.similarity_threshold ELSE DefaultThreshold

\* lines 701, 705, 708, 711
method_description(state) ==
    IF state.chunking_method = "Smart Paragraph"
    THEN << "S", "m", "a", "r", "t", " ", "P", "a", "r", "a", "g", "r", "a",
            "p", "h", " ", "(" >>
         \o str_int(state.paragraphs_per_chunk) \o
         << " ", "m", "a", "x", " ", "p", "a", "r", "a", "g", "r", "a", "p",
            "h", "s", " ", "p", "e", "r", " ", "c", "h", "u", "n", "k", ")" >>
    ELSE IF state.chunking_method = "Semantic"
    THEN << "S", "e", "m", "a", "n", "t", "i", "c", " ", "(", "~" >>
         \o str_int(state.tokens_per_chunk) \o
         << " ", "t", "o", "k", "e", "n", "s", " ", "p", "e", "r", " ", "c",
            "h", "u", "n", "k", ",", " ", "s", "i", "m", "i", "l", "a", "r",
            "i", "t", "y", ":", " " >>
         \o str_hundredths(similarity_of(state)) \o << ")" >>
    ELSE IF state.chunking_method = "Structure-based"
    THEN << "S", "t", "r", "u", "c", "t", "u", "r", "e", "-", "b", "a", "s",
            "e", "d", " ", "(", "~" >>
         \o str_int(state.tokens_per_chunk) \o
         << " ", "t", "o", "k", "e", "n", "s", " ", "p", "e", "r", " ", "c",
            "h", "u", "n", "k", ")" >>
    ELSE << "T", "o", "k", "e", "n", "-", "b", "a", "s", "e", "d", " ", "(",
            "~" >>
         \o str_int(state.tokens_per_chunk) \o
         << " ", "t", "o", "k", "e", "n", "s", " ", "p", "e", "r", " ", "c",
            "h", "u", "n", "k", ")" >>

\* lines 698-711
chunk_document(content, state, data, sklearn, sims, fails) ==
    IF state.chunking_method = "Smart Paragraph"
    THEN Return(chunk_by_paragraphs(content, state.paragraphs_per_chunk))
    ELSE IF state.chunking_method = "Semantic"
    THEN chunk_by_semantic_similarity(content, state.tokens_per_chunk,
             similarity_of(state), sklearn, data, sims, fails)
    ELSE IF state.chunking_method = "Structure-based"
    THEN chunk_by_structure(content, state.tokens_per_chunk, data)
    ELSE chunk_by_tokens(content, state.tokens_per_chunk, data)

\* lines 722-726
source_header(name) ==
    << "-", "-", "-", "\n", "S", "O", "U", "R", "C", "E", ":", " " >>
    \o name \o << NL, "-", "-", "-", NL, NL >>

\* a value is bound to a name once by drawing it from the set that holds
\* only it
\* lines 712-720: the chunks with their metadata, joined by a blank line
annotated_document(chunks, file, state, data) ==
    IF chunks.exc THEN [exc |-> TRUE, kind |-> chunks.kind]
    ELSE IF ~state.add_metadata
    THEN [exc |-> FALSE, content |-> join(chunks.val, NLNL),
          chunks |-> chunks.val]
    ELSE CHOOSE one \in
             { IF annotated.exc
               THEN [exc |-> TRUE, kind |-> annotated.kind]
               ELSE [exc |-> FALSE, content |-> join(annotated.val, NLNL),
                     chunks |-> annotated.val] :
               annotated \in { add_metadata(chunks.val, file.name,
                                   method_description(state), state, data) } } :
             TRUE

\* lines 693-728, one turn of the loop: the processed content of a file and
\* the chunks it was joined from, or the exception that ended the run
processed_document(file, state, data, sklearn, sims, fails) ==
    IF state.chunking_enabled
    THEN CHOOSE one \in
             { annotated_document(chunks, file, state, data) :
               chunks \in { chunk_document(process_file(file), state, data,
                                           sklearn, sims, fails) } } :
             TRUE
    ELSE [exc |-> FALSE,
          content |-> IF state.add_metadata
                      THEN source_header(file.name) \o process_file(file)
                      ELSE process_file(file),
          chunks |-> << >>]

\* lines 689-731, the loop after the turn for file i gave one
RECURSIVE process_loop(_, _, _, _, _, _, _, _)
after_document(one, files, i, state, data, sklearn, sims, fails, done) ==
    IF one.exc
    THEN [done EXCEPT !.exc = TRUE, !.kind = one.kind, !.read = i]
    ELSE process_loop(files, i + 1, state, data, sklearn, sims, fails,
             [done EXCEPT
                 !.contents = Append(@, one.content),
                 !.filenames = Append(@, md_name(files[i].name)),
                 !.chunks = Append(@, one.chunks),
                 !.read = i])

\* lines 689-731: the loop over the uploaded files; read counts the files
\* whose text was read
process_loop(files, i, state, data, sklearn, sims, fails, done) ==
    IF i > Len(files) THEN done
    ELSE CHOOSE next \in
             { after_document(one, files, i, state, data, sklearn, sims,
                              fails, done) :
               one \in { processed_document(files[i], state, data, sklearn,
                                            sims, fails) } } :
             TRUE

document_separator_always_blank_line(add_meta) == NLNL

\* lines 737-740
document_separator(add_meta) ==
    IF add_meta THEN << NL, NL, "-", "-", "-", NL, NL >> ELSE NLNL

\* the uploaded files after the first n of them were read to their end
files_read(files, n) ==
    [k \in 1..Len(files) |->
        IF k <= n THEN [files[k] EXCEPT !.position = "end"] ELSE files[k]]

\* lines 734-743, the session state after the loop ended as done says
session_after(done, state) ==
    IF done.exc
    THEN [exc |-> TRUE, kind |-> done.kind,
          state |-> [state EXCEPT
              !.uploaded_files = files_read(@, done.read)],
          chunks |-> << >>]
    ELSE [exc |-> FALSE, kind |-> "",
          state |-> [state EXCEPT
              !.uploaded_files = files_read(@, done.read),
              !.processed_files =
                  [k \in 1..Len(done.contents) |->
                      << done.contents[k], done.filenames[k] >>],
              !.merged_content =
                  join(done.contents, document_separator(state.add_metadata)),
              !.conversion_done = TRUE],
          chunks |-> done.chunks]

\* lines 682-743, the handler of the button Process Files on the session
\* state: the new session state, the chunks of every document and whether
\* an exception ended the run
process_files(state, data, sklearn, sims, fails) ==
    CHOOSE after \in
        { session_after(done, state) :
          done \in { process_loop(state.uploaded_files, 1, state, data,
                         sklearn, sims, fails,
                         [exc |-> FALSE, kind |-> "", contents |-> << >>,
                          filenames |-> << >>, chunks |-> << >>,
                          read |-> 0]) } } :
        TRUE

\* what the runs of the script leave alone
environment == <<text, max_paragraphs, max_tokens, similarity_threshold,
                 has_sklearn, similarities, vectorizer_fails, chunks_in,
                 max_keywords, returned>>

\* the option widgets as a run of the script finds them: as the last run
\* left them if it showed them, with their starting values otherwise
options_shown ==
    IF rendered_page = "process" THEN widgets.options ELSE DefaultOptions

\* the file uploader as a run of the script finds it
uploader_shown ==
    IF rendered_page = "upload" THEN widgets.uploader ELSE << >>

\* lines 649-650
with_uploaded(state, files) ==
    IF files # << >> THEN [state EXCEPT !.uploaded_files = files] ELSE state

\* a run of the script that renders the page of state.current_page with no
\* button of the main area pressed: the session state it leaves
rendered(state) ==
    IF state.current_page = "process"
    THEN sidebar_options(state, options_shown)
    ELSE IF state.current_page = "upload"
    THEN with_uploaded(state, uploader_shown)
    ELSE state

\* the widgets a run leaves that renders the given page
widgets_of(page, uploader, options) ==
    [uploader |-> IF page = "upload" THEN uploader ELSE << >>,
     options |-> IF page = "process" THEN options ELSE DefaultOptions]

\* lines 511-518: a navigation button of the sidebar, then the page
Navigate ==
    \E page \in Pages :
        LET state == [session_state EXCEPT !.current_page = page]
        IN  /\ session_state' = rendered(state)
            /\ widgets' = widgets_of(page, uploader_shown, options_shown)
            /\ rendered_page' = page
            /\ call' = "navigate"
            /\ result' = Return(<< >>)
            /\ UNCHANGED <<environment, nltk_data, document_chunks>>

\* a run of the script started by a widget that the page of current_page
\* does not show (the page of the last run is still in the browser after a
\* button of the main area has changed current_page)
Rerun ==
    /\ rendered_page # session_state.current_page
    /\ session_state' = rendered(session_state)
    /\ widgets' = widgets_of(session_state.current_page, << >>,
                             DefaultOptions)
    /\ rendered_page' = session_state.current_page
    /\ call' = "rerun"
    /\ result' = Return(<< >>)
    /\ UNCHANGED <<environment, nltk_data, document_chunks>>

\* lines 635-636
GoToUploadFiles ==
    /\ rendered_page = "home"
    /\ session_state.current_page = "home"
    /\ session_state' = [session_state EXCEPT !.current_page = "upload"]
    /\ call' = "go_to_upload_files"
    /\ result' = Return(<< >>)
    /\ UNCHANGED <<environment, nltk_data, document_chunks, widgets,
                   rendered_page>>

\* lines 642-650: the user changes the selection of the file uploader
SelectFiles ==
    /\ rendered_page = "upload"
    /\ session_state.current_page = "upload"
    /\ \E files \in FileLists(MaxFiles) :
          /\ widgets' = [widgets EXCEPT !.uploader = files]
          /\ session_state' = with_uploaded(session_state, files)
    /\ call' = "select_files"
    /\ result' = Return(<< >>)
    /\ UNCHANGED <<environment, nltk_data, document_chunks, rendered_page>>

\* lines 649-666: the button is shown while the uploader holds files
ProceedToProcessing ==
    /\ rendered_page = "upload"
    /\ session_state.current_page = "upload"
    /\ widgets.uploader # << >>
    /\ session_state' =
          [with_uploaded(session_state, widgets.uploader)
              EXCEPT !.current_page = "process"]
    /\ call' = "proceed_to_processing"
    /\ result' = Return(<< >>)
    /\ UNCHANGED <<environment, nltk_data, document_chunks, widgets,
                   rendered_page>>

\* lines 673-676
GoToUpload ==
    /\ rendered_page = "process"
    /\ session_state.current_page = "process"
    /\ session_state.uploaded_files = << >>
    /\ session_state' =
          [sidebar_options(session_state, widgets.options)
              EXCEPT !.current_page = "upload"]
    /\ call' = "go_to_upload"
    /\ result' = Return(<< >>)
    /\ UNCHANGED <<environment, nltk_data, document_chunks, widgets,
                   rendered_page>>

\* the option settings a user of the model chooses among
OptionChoices ==
    { DefaultOptions,
      [DefaultOptions EXCEPT !.chunking_enabled = TRUE,
                             !.paragraphs_per_chunk = 1,
                             !.add_metadata = FALSE],
      [DefaultOptions EXCEPT !.chunking_enabled = TRUE,
                             !.chunking_method = "Token-based",
                             !.tokens_per_chunk = 100,
                             !.extract_keywords = FALSE,
                             !.output_format = "Multiple Files (ZIP)"] }

\* lines 524-612: the user changes option widgets of the sidebar
ChangeOptions ==
    /\ rendered_page = "process"
    /\ session_state.current_page = "process"
    /\ \E options \in OptionChoices :
          /\ widgets' = [widgets EXCEPT !.options = options]
          /\ session_state' = sidebar_options(session_state, options)
    /\ call' = "change_options"
    /\ result' = Return(<< >>)
    /\ UNCHANGED <<environment, nltk_data, document_chunks, rendered_page>>

\* lines 682-747: the button Process Files; an exception of a chunker or of
\* add_metadata ends the run before anything is stored
ProcessFiles ==
    /\ rendered_page = "process"
    /\ session_state.current_page = "process"
    /\ session_state.uploaded_files # << >>
    /\ \E done \in { process_files(
                           sidebar_options(session_state, widgets.options),
                           nltk_data, has_sklearn, similarities,
                           vectorizer_fails) } :
           /\ session_state' = done.state
           /\ document_chunks' = IF done.exc THEN document_chunks
                                 ELSE done.chunks
           /\ result' = IF done.exc THEN Raise(done.kind) ELSE Return(<< >>)
    /\ nltk_data' = IF session_state'.chunking_enabled
                    THEN data_after_tokens(nltk_data) ELSE nltk_data
    /\ call' = "process_files"
    /\ UNCHANGED <<environment, widgets, rendered_page>>

\* lines 775-778
ProcessMoreFiles ==
    /\ rendered_page = "process"
    /\ session_state.current_page = "process"
    /\ session_state.uploaded_files # << >>
    /\ session_state.conversion_done
    /\ session_state' =
          [sidebar_options(session_state, widgets.options)
              EXCEPT !.conversion_done = FALSE, !.uploaded_files = << >>,
                     !.current_page = "upload"]
    /\ call' = "process_more_files"
    /\ result' = Return(<< >>)
    /\ UNCHANGED <<environment, nltk_data, document_chunks, widgets,
                   rendered_page>>

\* lines 806-807
ReturnToHome ==
    /\ rendered_page = "about"
    /\ session_state.current_page = "about"
    /\ session_state' = [session_state EXCEPT !.current_page = "home"]
    /\ call' = "return_to_home"
    /\ result' = Return(<< >>)
    /\ UNCHANGED <<environment, nltk_data, document_chunks, widgets,
                   rendered_page>>

\* the first run of the script: lines 61-64 and 138-148, then the home page
InitApp ==
    /\ session_state = InitialSession
    /\ widgets = widgets_of("home", << >>, DefaultOptions)
    /\ rendered_page = "home"
    /\ \E installed \in NltkInstalled :
          nltk_data = nltk_after_import(installed)
    /\ has_sklearn = TRUE
    /\ text = << >>
    /\ max_tokens = DefaultMaxTokens
    /\ max_paragraphs = DefaultMaxParagraphs
    /\ similarity_threshold = DefaultThreshold
    /\ similarities = << >>
    /\ vectorizer_fails = FALSE
    /\ chunks_in = << >>
    /\ max_keywords = DefaultMaxKeywords
    /\ call = NoCall
    /\ result = Return(<< >>)
    /\ returned = << >>
    /\ document_chunks = << >>

NextApp ==
    \/ Navigate
    \/ Rerun
    \/ GoToUploadFiles
    \/ SelectFiles
    \/ ProceedToProcessing
    \/ GoToUpload
    \/ ChangeOptions
    \/ ProcessFiles
    \/ ProcessMoreFiles
    \/ ReturnToHome

SpecApp == InitApp /\ [][NextApp]_vars

\* the Process page with files uploaded and the options set, before the
\* button Process Files is pressed
ProcessOptions ==
    { [DefaultOptions EXCEPT !.output_format = format,
                             !.chunking_enabled = enabled,
                             !.chunking_method = method,
                             !.paragraphs_per_chunk = paragraphs,
                             !.tokens_per_chunk = 100,
                             !.add_metadata = metadata,
                             !.extract_keywords = keywords,
                             !.max_keywords = 3] :
      format \in {"Single Merged File", "Multiple Files (ZIP)"},
      enabled \in BOOLEAN, method \in ChunkingMethods,
      paragraphs \in {1, DefaultMaxParagraphs},
      metadata \in BOOLEAN, keywords \in BOOLEAN }

InitProcess ==
    /\ \E files \in FileLists(MaxFiles) \ { << >> }, options \in ProcessOptions :
          /\ session_state =
                sidebar_options([InitialSession EXCEPT
                                    !.uploaded_files = files,
                                    !.current_page = "process"], options)
          /\ widgets = widgets_of("process", << >>, options)
    /\ rendered_page = "process"
    /\ nltk_data \in NltkData
    /\ has_sklearn \in BOOLEAN
    /\ text = << >>
    /\ max_tokens = DefaultMaxTokens
    /\ max_paragraphs = DefaultMaxParagraphs
    /\ similarity_threshold = DefaultThreshold
    /\ similarities = << >>
    /\ vectorizer_fails = FALSE
    /\ chunks_in = << >>
    /\ max_keywords = DefaultMaxKeywords
    /\ call = NoCall
    /\ result = Return(<< >>)
    /\ returned = << >>
    /\ document_chunks = << >>

NextProcess == ProcessFiles

SpecProcess == InitProcess /\ [][NextProcess]_vars

(***************************************************************************)
(* Properties of chunk_by_paragraphs.                                      *)
(***************************************************************************)
ParagraphsReturned == call = "chunk_by_paragraphs" /\ ~result.exc

\* the paragraphs a returned chunk holds
chunk_paragraphs(i) == paragraphs_of(result.val[i])

minimum_before_heading == Max(2, max_paragraphs \div 2)

HeadingLed(i) ==
    /\ chunk_paragraphs(i) # <<>>
    /\ is_heading(chunk_paragraphs(i)[1])

\* C4: no chunk returned by chunk_by_paragraphs holds more than
\* max_paragraphs paragraphs.
C4_AtMostMaxParagraphs ==
    ParagraphsReturned =>
        \A i \in 1..Len(result.val) :
            Len(chunk_paragraphs(i)) <= max_paragraphs

\* the cap acted: a full chunk was closed in front of a non-heading paragraph
C4_Witness ==
    /\ ParagraphsReturned
    /\ max_paragraphs >= 2
    /\ Len(result.val) >= 2
    /\ Len(chunk_paragraphs(1)) = max_paragraphs
    /\ ~HeadingLed(2)

\* C5 as claimed: every chunk that is immediately followed by a chunk whose
\* first paragraph is a heading holds at least max(2, max_paragraphs // 2)
\* paragraphs.
C5_Claimed ==
    ParagraphsReturned =>
        \A i \in 1..(Len(result.val) - 1) :
            HeadingLed(i + 1) =>
                Len(chunk_paragraphs(i)) >= minimum_before_heading

\* C5 amended: every chunk that is immediately followed by a chunk whose
\* first paragraph is a heading holds at least
\* min(max_paragraphs, max(2, max_paragraphs // 2)) paragraphs: it reached the
\* minimum, or it is full (which is below the minimum only when
\* max_paragraphs = 1).
C5_MinimumOrFullBeforeHeading ==
    ParagraphsReturned =>
        \A i \in 1..(Len(result.val) - 1) :
            HeadingLed(i + 1) =>
                Len(chunk_paragraphs(i)) >=
                    Min(max_paragraphs, minimum_before_heading)

\* a heading closed a chunk that had reached the minimum but was not full
C5_Witness ==
    /\ ParagraphsReturned
    /\ Len(result.val) >= 2
    /\ HeadingLed(2)
    /\ Len(chunk_paragraphs(1)) = minimum_before_heading
    /\ Len(chunk_paragraphs(1)) < max_paragraphs

RECURSIVE all_chunk_paragraphs(_)
all_chunk_paragraphs(i) ==
    IF i > Len(result.val) THEN <<>>
    ELSE chunk_paragraphs(i) \o all_chunk_paragraphs(i + 1)

\* C6: for a text with at least one non-blank paragraph the chunks are an
\* ordered partition of the paragraph sequence: the paragraphs of the chunks,
\* read in order, are exactly the paragraphs of the text, and no chunk is
\* without a paragraph.
C6_OrderedPartition ==
    (ParagraphsReturned /\ paragraphs_of(text) # <<>>) =>
        /\ all_chunk_paragraphs(1) = paragraphs_of(text)
        /\ \A i \in 1..Len(result.val) : chunk_paragraphs(i) # <<>>

\* several paragraphs were spread over several chunks
C6_Witness ==
    /\ ParagraphsReturned
    /\ Len(paragraphs_of(text)) >= 3
    /\ Len(result.val) >= 2
    /\ Len(chunk_paragraphs(1)) >= 2

(***************************************************************************)
(* Properties of chunk_by_tokens.                                          *)
(***************************************************************************)
TokensReturned == call = "chunk_by_tokens" /\ ~result.exc

\* the sentences a chunk holds, as the call split them
chunk_sentences(chunk) == sentences_of(chunk, nltk_data).val

RECURSIVE token_sum(_)
token_sum(sentences) ==
    IF sentences = <<>> THEN 0
    ELSE sentence_token_count(Head(sentences), nltk_data)
         + token_sum(Tail(sentences))

\* C1: the token count of every chunk returned by chunk_by_tokens (the sum of
\* the word counts of its sentences) is at most max_tokens, unless the chunk
\* is exactly one sentence that alone exceeds max_tokens.
C1_WithinBudgetOrSingleSentence ==
    TokensReturned =>
        \A i \in 1..Len(result.val) :
            LET sentences == chunk_sentences(result.val[i])
            IN  \/ token_sum(sentences) <= max_tokens
                \/ (Len(sentences) = 1 /\ token_sum(sentences) > max_tokens)

\* a chunk of several sentences was filled to the budget and closed, and an
\* oversized sentence was emitted alone
C1_Witness ==
    /\ TokensReturned
    /\ Len(result.val) >= 2
    /\ Len(chunk_sentences(result.val[1])) >= 2
    /\ token_sum(chunk_sentences(result.val[1])) = max_tokens
    /\ token_sum(chunk_sentences(result.val[2])) > max_tokens

(***************************************************************************)
(* Properties of chunk_by_semantic_similarity.                             *)
(***************************************************************************)
SemanticCalled == call = "chunk_by_semantic_similarity"

\* C8 as claimed: without the similarity capability, with fewer than 4
\* non-blank paragraphs (zero included) or when vectorization raises, the
\* result is exactly the result of chunk_by_tokens on the whole text with the
\* same max_tokens.
C8_FallbackIsTokenChunker ==
    (/\ SemanticCalled
     /\ \/ ~has_sklearn
        \/ Len(paragraphs_of(text)) < 4
        \/ vectorizer_fails)
    => result = chunk_by_tokens(text, max_tokens, nltk_data)

\* the pass over the paragraphs was made
SemanticPass ==
    /\ SemanticCalled
    /\ has_sklearn
    /\ ~vectorizer_fails
    /\ nltk_data = "ok"
    /\ Len(paragraphs_of(text)) >= 4

paragraph_tokens(i) ==
    Len(word_tokenize(paragraphs_of(text)[i], nltk_data).val)

RECURSIVE tokens_between(_, _)
tokens_between(first, last) ==
    IF first > last THEN 0
    ELSE paragraph_tokens(first) + tokens_between(first + 1, last)

\* index, among the paragraphs of the text, of the first paragraph of chunk k
RECURSIVE anchor_of(_)
anchor_of(k) ==
    IF k = 1 THEN 1
    ELSE anchor_of(k - 1) + Len(paragraphs_of(result.val[k - 1]))

\* paragraph i was entitled to join the chunk anchored at a
Entitled(a, i) ==
    /\ similarities[a][i] > similarity_threshold
    /\ tokens_between(a, i) <= max_tokens

\* C9: when the pass is made, the chunks are runs of consecutive paragraphs;
\* a paragraph is in the chunk of its predecessor if and only if its
\* similarity to the paragraph that began that chunk is strictly above the
\* threshold and the chunk's tokens with it stay within max_tokens; so when
\* no similarity exceeds the threshold every paragraph is a chunk of its own.
C9_GreedyAnchoredMerge ==
    SemanticPass =>
        /\ ~result.exc
        /\ all_chunk_paragraphs(1) = paragraphs_of(text)
        /\ \A k \in 1..Len(result.val) :
              LET a == anchor_of(k)
                  n == Len(paragraphs_of(result.val[k]))
              IN  /\ n >= 1
                  /\ \A i \in (a + 1)..(a + n - 1) : Entitled(a, i)
                  /\ k < Len(result.val) => ~Entitled(a, a + n)
        /\ (\A i, j \in 1..Len(paragraphs_of(text)) :
                i # j => similarities[i][j] <= similarity_threshold)
            => Len(result.val) = Len(paragraphs_of(text))

\* a paragraph was merged, one was refused for a similarity equal to the
\* threshold and one for the budget
C9_Witness ==
    /\ SemanticPass
    /\ \E k \in 1..(Len(result.val) - 1) :
          LET a == anchor_of(k)
              n == Len(paragraphs_of(result.val[k]))
          IN  /\ n >= 2
              /\ similarities[a][a + n] > similarity_threshold
              /\ tokens_between(a, a + n) > max_tokens
    /\ \E k \in 1..(Len(result.val) - 1) :
          LET a == anchor_of(k)
              n == Len(paragraphs_of(result.val[k]))
          IN  /\ similarities[a][a + n] = similarity_threshold
              /\ tokens_between(a, a + n) <= max_tokens

(***************************************************************************)
(* Properties of chunk_by_structure.                                       *)
(***************************************************************************)
StructureReturned == call = "chunk_by_structure" /\ ~result.exc

lines_of(t) == str_split(t, << NL >>)

\* the heading lines of a text: its lines that begin with one to six "#"
\* followed by whitespace
heading_lines(t) == SelectSeq(lines_of(t), is_heading)

\* the heading sections of a text: each heading line with the lines up to the
\* next heading line
RECURSIVE heading_sections_from(_, _, _)
heading_sections_from(lines, i, current) ==
    LET closed == IF current = <<>> THEN <<>>
                  ELSE << join(current, << NL >>) >>
    IN  IF i > Len(lines) THEN closed
        ELSE IF is_heading(lines[i])
             THEN closed \o heading_sections_from(lines, i + 1, << lines[i] >>)
        ELSE IF current = <<>>
             THEN heading_sections_from(lines, i + 1, <<>>)
        ELSE heading_sections_from(lines, i + 1, Append(current, lines[i]))

heading_sections(t) == heading_sections_from(lines_of(t), 1, <<>>)

SectionsWithinBudget ==
    \A i \in 1..Len(heading_sections(text)) :
        sentence_token_count(heading_sections(text)[i], nltk_data)
            <= max_tokens

\* C7 as claimed: for a text with k >= 1 heading lines whose heading sections
\* are each within max_tokens, chunk_by_structure returns exactly k chunks and
\* the i-th chunk starts with the i-th heading line.
C7_OneChunkPerHeading ==
    (/\ StructureReturned
     /\ Len(heading_lines(text)) >= 1
     /\ SectionsWithinBudget)
    => /\ Len(result.val) = Len(heading_lines(text))
       /\ \A i \in 1..Len(result.val) :
             StartsWithAt(result.val[i], heading_lines(text)[i], 1)

(***************************************************************************)
(* Properties of add_metadata.                                             *)
(***************************************************************************)
MetadataReturned == call = "add_metadata" /\ ~result.exc

\* int(s) for a string of digits, -1 for any other string
RECURSIVE int_of(_)
int_of(s) ==
    IF s = <<>> \/ \E k \in 1..Len(s) : \A d \in 1..10 : s[k] # Digit[d]
    THEN -1
    ELSE LET last == (CHOOSE d \in 1..10 : Digit[d] = s[Len(s)]) - 1
         IN  IF Len(s) = 1 THEN last
             ELSE 10 * int_of(SubSeq(s, 1, Len(s) - 1)) + last

chunk_label == << "C", "H", "U", "N", "K", ":", " " >>

\* the "i/total" a returned string carries on its second line, <<i, total>>
index_and_total(out) ==
    LET lines == lines_of(out)
        line == lines[2]
        pair == str_split(SubSeq(line, Len(chunk_label) + 1, Len(line)),
                          << "/" >>)
    IN  IF Len(lines) >= 2 /\ StartsWithAt(line, chunk_label, 1)
           /\ Len(pair) = 2
        THEN << int_of(pair[1]), int_of(pair[2]) >>
        ELSE << -1, -1 >>

EndsWith(s, suffix) ==
    /\ Len(suffix) <= Len(s)
    /\ SubSeq(s, Len(s) - Len(suffix) + 1, Len(s)) = suffix

\* C10: add_metadata returns as many strings as it was given chunks, in the
\* same order; the i-th of n carries the header line "CHUNK: i/n" and ends
\* with the i-th chunk, unmodified, after the header's closing "---" and a
\* blank line.
C10_IndexedHeadersSameBodies ==
    MetadataReturned =>
        /\ Len(result.val) = Len(chunks_in)
        /\ \A i \in 1..Len(result.val) :
              /\ index_and_total(result.val[i]) = << i, Len(chunks_in) >>
              /\ EndsWith(result.val[i],
                          << "-", "-", "-", NL, NL >> \o chunks_in[i])

\* ten chunks or more were annotated, with keywords and with different bodies
C10_Witness ==
    /\ MetadataReturned
    /\ Len(chunks_in) >= 10
    /\ chunks_in[1] # chunks_in[2]
    /\ "extract_keywords" \in DOMAIN session_state
    /\ session_state.extract_keywords
    /\ index_and_total(result.val[10]) = << 10, Len(chunks_in) >>

(***************************************************************************)
(* Properties of all four chunkers.                                        *)
(***************************************************************************)
ChunkerReturned ==
    /\ call \in {"chunk_by_paragraphs", "chunk_by_tokens",
                  "chunk_by_structure", "chunk_by_semantic_similarity"}
    /\ ~result.exc

\* C2 as claimed: every chunker returns at least one chunk, and for a text
\* without content (empty or only whitespace, so without sentences and
\* paragraphs) exactly one chunk, the empty string.
C2_AtLeastOneChunk ==
    ChunkerReturned =>
        /\ Len(result.val) >= 1
        /\ ~strip_nonempty(text) => result.val = << <<>> >>

\* the characters of a string that are not whitespace, in order
non_blank(s) == SelectSeq(s, LAMBDA c : ~IsSpace(c))

\* the separator the chunker joined with (paragraphs with a blank line,
\* sentences with a space)
join_separator ==
    IF call = "chunk_by_tokens" THEN SP ELSE NLNL

\* C3 as claimed: the chunks of every chunker, joined in order with the
\* method's separator, hold all the non-blank content of the text in its
\* order, nothing dropped and nothing duplicated.
C3_ContentPreserved ==
    ChunkerReturned =>
        non_blank(join(result.val, join_separator)) = non_blank(text)

(***************************************************************************)
(* Properties of extract_keywords.                                         *)
(***************************************************************************)
KeywordsReturned == call = "extract_keywords" /\ ~result.exc

\* the tokens of the lowercased text, as the tokenizer in use splits them
text_tokens == whitespace_split(str_lower(text))

Qualifies(word) == word \notin stops /\ Len(word) >= 3

occurrences(word) == count_of(word, text_tokens)

\* position of the first occurrence of a word among the tokens
first_seen(word) ==
    CHOOSE k \in 1..Len(text_tokens) :
        /\ text_tokens[k] = word
        /\ \A j \in 1..(k - 1) : text_tokens[j] # word

\* word a is ranked before word b: more frequent, or as frequent and met first
RankedBefore(a, b) ==
    \/ occurrences(a) > occurrences(b)
    \/ (occurrences(a) = occurrences(b) /\ first_seen(a) < first_seen(b))

qualifying_words ==
    { text_tokens[k] : k \in { j \in 1..Len(text_tokens) :
                                  Qualifies(text_tokens[j]) } }

\* the list is the max_keywords best ranked qualifying words of the text
RankedKeywords ==
    LET keywords == result.val
    IN  /\ Len(keywords) <= max_keywords
        /\ Len(keywords) = Min(max_keywords, Cardinality(qualifying_words))
        /\ \A i \in 1..Len(keywords) :
              /\ keywords[i] \in qualifying_words
              /\ str_lower(keywords[i]) = keywords[i]
              /\ \A j \in (i + 1)..Len(keywords) :
                    RankedBefore(keywords[i], keywords[j])
              /\ \A w \in qualifying_words :
                    (\A j \in 1..Len(keywords) : keywords[j] # w)
                        => RankedBefore(keywords[i], w)
        /\ (max_keywords = 0 \/ qualifying_words = {}) => keywords = <<>>

\* the single entry returned when the tokenizer raised
IsSentinel(keywords) ==
    /\ Len(keywords) = 1
    /\ StartsWithAt(keywords[1], error_extracting_keywords, 1)

\* C11 as claimed: for every text and every max_keywords >= 0,
\* extract_keywords returns at most max_keywords distinct lowercase tokens,
\* none a stop word, a punctuation glyph or shorter than 3, ordered by
\* descending frequency with ties in first-encountered order; the list is
\* empty when max_keywords = 0 or when no token qualifies.
C11_Claimed == KeywordsReturned => RankedKeywords

\* C11 amended: the above holds whenever the tokenizer works; when the
\* tokenizer raises, the list is the single sentinel entry
\* "Error extracting keywords: ...", whatever max_keywords is.
C11_RankedKeywordsOrSentinel ==
    KeywordsReturned =>
        IF nltk_data = "ok" THEN RankedKeywords ELSE IsSentinel(result.val)

\* of two qualifying words the more frequent one, met second and once
\* capitalised, was returned alone, and a stop word was left out
C11_Witness ==
    /\ KeywordsReturned
    /\ nltk_data = "ok"
    /\ max_keywords = 1
    /\ Cardinality(qualifying_words) = 2
    /\ Len(result.val) = 1
    /\ \E w \in qualifying_words : first_seen(w) < first_seen(result.val[1])
    /\ text_tokens # SelectSeq(text_tokens, Qualifies)
    /\ str_lower(text) # text

C13_NoExceptionEscapes ==
    (/\ call \in {"chunk_by_paragraphs", "chunk_by_tokens",
                   "chunk_by_structure", "chunk_by_semantic_similarity"}
     /\ nltk_data # "ok")
    => ~result.exc

(***************************************************************************)
(* Properties of the merged output of the Process step.                    *)
(***************************************************************************)
\* the Process step ran to its end with chunking enabled
Processed ==
    /\ call = "process_files"
    /\ ~result.exc
    /\ session_state.chunking_enabled

starts_with(s, prefix) ==
    /\ Len(prefix) <= Len(s)
    /\ SubSeq(s, 1, Len(prefix)) = prefix

\* the first lines of the metadata of chunk i of total of the file name
chunk_of_source(i, total, name) ==
    << "-", "-", "-", NL, "C", "H", "U", "N", "K", ":", " " >>
    \o str_int(i) \o << "/" >> \o str_int(total)
    \o << NL, "S", "O", "U", "R", "C", "E", ":", " " >> \o name \o << NL >>

\* C14 as claimed: the merged output is all chunks of all documents, in
\* order, every two consecutive chunks joined with "\n\n---\n\n" when
\* metadata is enabled and with "\n\n" when it is disabled, chunks of the
\* same document included.
C14_Claimed ==
    Processed =>
        session_state.merged_content =
            join(concat(document_chunks),
                 IF session_state.add_metadata
                 THEN << NL, NL, "-", "-", "-", NL, NL >> ELSE NLNL)

\* C14 amended: the merged output is the documents in the order supplied,
\* joined with "\n\n---\n\n" when metadata is enabled and with "\n\n" when
\* it is disabled; a document is its chunks in chunk order, always joined
\* with "\n\n"; with metadata, chunk i of the n chunks of a document starts
\* with the lines CHUNK: i/n and SOURCE: the name of that document.
C14_DocumentsJoinedChunksByBlankLine ==
    Processed =>
        /\ Len(document_chunks) = Len(session_state.uploaded_files)
        /\ session_state.merged_content =
               join([d \in 1..Len(document_chunks) |->
                        join(document_chunks[d], NLNL)],
                    IF session_state.add_metadata
                    THEN << NL, NL, "-", "-", "-", NL, NL >> ELSE NLNL)
        /\ session_state.add_metadata =>
               \A d \in 1..Len(document_chunks) :
                   \A i \in 1..Len(document_chunks[d]) :
                       starts_with(document_chunks[d][i],
                           chunk_of_source(i, Len(document_chunks[d]),
                               session_state.uploaded_files[d].name))

\* two documents were processed with metadata, one of them in two chunks or
\* more
C14_Witness ==
    /\ Processed
    /\ session_state.add_metadata
    /\ Len(document_chunks) >= 2
    /\ \E d \in 1..Len(document_chunks) : Len(document_chunks[d]) >= 2
    /\ \A d \in 1..Len(document_chunks) : Len(document_chunks[d]) >= 1

(***************************************************************************)
(* Properties of the sections of chunk_by_structure.                       *)
(***************************************************************************)
\* C15 as claimed: for a text with at least one heading line the chunker
\* forms one section per heading, in order, each the heading with all the
\* content up to the next heading or the end of the text; when every such
\* section is within max_tokens the chunks are these sections, so a chunk
\* holds the body text under its heading (compared without whitespace).
C15_SectionHoldsBody ==
    (/\ StructureReturned
     /\ Len(heading_lines(text)) >= 1)
    => /\ Len(sections_of(text)) = Len(heading_sections(text))
       /\ \A i \in 1..Len(heading_sections(text)) :
             non_blank(sections_of(text)[i])
                 = non_blank(heading_sections(text)[i])
       /\ SectionsWithinBudget =>
             /\ Len(result.val) = Len(heading_sections(text))
             /\ \A i \in 1..Len(heading_sections(text)) :
                   non_blank(result.val[i])
                       = non_blank(heading_sections(text)[i])

(***************************************************************************)
(* Properties of the chunks chunk_by_structure makes of its sections.      *)
(***************************************************************************)
\* the words of a section as the chunker counts them
section_words(section) == Len(word_tokenize(section, nltk_data).val)

\* what a section is to become: itself when its words are within
\* max_tokens, the chunks of chunk_by_tokens for it alone otherwise
section_chunks(section) ==
    IF section_words(section) <= max_tokens THEN << section >>
    ELSE chunk_by_tokens(section, max_tokens, nltk_data).val

\* C16: when chunk_by_structure found a heading and returns, its chunks are,
\* section after section in the order of the sections, the section itself
\* unchanged when its word count is at most max_tokens and else the chunks
\* chunk_by_tokens returns for that section alone with the same max_tokens.
C16_SectionsInOrderSplitByTokens ==
    (/\ StructureReturned
     /\ sections_of(text) # <<>>)
    => result.val =
           concat([i \in 1..Len(sections_of(text)) |->
                      section_chunks(sections_of(text)[i])])

\* three sections: one exactly at the budget, then one over it that
\* chunk_by_tokens split in two or more, then another one
C16_Witness ==
    /\ StructureReturned
    /\ Len(sections_of(text)) >= 3
    /\ section_words(sections_of(text)[1]) = max_tokens
    /\ section_words(sections_of(text)[2]) > max_tokens
    /\ Len(section_chunks(sections_of(text)[2])) >= 2
    /\ Len(result.val) >= 4

(***************************************************************************)
(* Properties of the pages of the application.                             *)
(***************************************************************************)
\* the run of the script that drew the page in the browser showed the
\* download and preview section of the Process page (lines 670-750)
DownloadOffered ==
    /\ rendered_page = "process"
    /\ session_state.current_page = "process"
    /\ ~result.exc
    /\ session_state.uploaded_files # << >>
    /\ session_state.conversion_done

\* C17 as claimed: whenever the Process page offers the download section,
\* the stored processed_files are those of the files now uploaded: one entry
\* for each uploaded file, in the same order, under the name made of that
\* file's name.
C17_DownloadsAreOfCurrentUpload ==
    DownloadOffered =>
        /\ Len(session_state.processed_files)
               = Len(session_state.uploaded_files)
        /\ \A i \in 1..Len(session_state.uploaded_files) :
               session_state.processed_files[i][2]
                   = md_name(session_state.uploaded_files[i].name)

====
